---- MODULE Spec2Model ----
(***************************************************************************)
(* Model of the zeste backend (src/app.py): the requires_auth gate, the    *)
(* clerk_webhook synchronisation of the User and Restaurant tables, and    *)
(* the two protected handlers restaurant_settings and get_dashboard_stats. *)
(*                                                                         *)
(* The tables are sets of rows.  The surrogate key of a User row is not     *)
(* modelled (no handler reads it), nor is the upload folder that            *)
(* restaurant_settings writes a logo to.                                    *)
(*                                                                         *)
(* Text that the code inspects character by character (names, slugs, file  *)
(* names) is a sequence of one-character strings; opaque text (ids, emails,*)
(* links, colours) is a string.  Python's None is None for strings and     *)
(* NoneT for character sequences.                                          *)
(***************************************************************************)
EXTENDS Integers, Sequences, FiniteSets, TLC

VARIABLES users, restaurants, servers, dishes, last

vars == <<users, restaurants, servers, dishes, last>>

None == "None"

NoneT == <<"None">>

\* ------------------------------------------------------------------ bounds

\* Primary keys the database may hand out for a Restaurant row.
MaxRowId == 2

\* ------------------------------------------------------------- characters

UpperCase == <<"A","B","C","D","E","F","G","H","I","J","K","L","M",
               "N","O","P","Q","R","S","T","U","V","W","X","Y","Z">>

LowerCase == <<"a","b","c","d","e","f","g","h","i","j","k","l","m",
               "n","o","p","q","r","s","t","u","v","w","x","y","z">>

Digits == {"0","1","2","3","4","5","6","7","8","9"}

Range(s) == {s[i] : i \in DOMAIN s}

\* str.lower() on one character
LowerChar(c) ==
    IF \E i \in DOMAIN UpperCase : UpperCase[i] = c
    THEN LowerCase[CHOOSE i \in DOMAIN UpperCase : UpperCase[i] = c]
    ELSE c

\* str.lower()
Lower(text) == [i \in DOMAIN text |-> LowerChar(text[i])]

\* \w of the regular expression: letters, digits and the underscore
WordChars == Range(UpperCase) \cup Range(LowerCase) \cup Digits \cup {"_"}

IsWordChar(c) == c \in WordChars

\* re.sub(r'[\s\W]+', '-', text): every maximal run of non-word characters
\* becomes one '-'
RECURSIVE SubRuns(_, _)
SubRuns(text, inRun) ==
    IF text = <<>> THEN <<>>
    ELSE IF IsWordChar(Head(text))
         THEN <<Head(text)>> \o SubRuns(Tail(text), FALSE)
         ELSE IF inRun THEN SubRuns(Tail(text), TRUE)
              ELSE <<"-">> \o SubRuns(Tail(text), TRUE)

\* str.strip(chars)
RECURSIVE LStrip(_, _)
LStrip(text, chars) ==
    IF text # <<>> /\ Head(text) \in chars THEN LStrip(Tail(text), chars) ELSE text

RECURSIVE RStrip(_, _)
RStrip(text, chars) ==
    IF text # <<>> /\ text[Len(text)] \in chars
    THEN RStrip(SubSeq(text, 1, Len(text) - 1), chars)
    ELSE text

Strip(text, chars) == RStrip(LStrip(text, chars), chars)

slugify(text) == Strip(SubRuns(Lower(text), FALSE), {"-"})

ALLOWED_EXTENSIONS == {<<"p","n","g">>, <<"j","p","g">>, <<"j","p","e","g">>, <<"g","i","f">>}

\* filename.rsplit('.', 1)[1]: the text after the last '.'
LastDot(filename) == CHOOSE i \in DOMAIN filename :
    filename[i] = "." /\ \A j \in DOMAIN filename : filename[j] = "." => j <= i

Extension(filename) == SubSeq(filename, LastDot(filename) + 1, Len(filename))

allowed_file(filename) ==
    /\ "." \in Range(filename)
    /\ Lower(Extension(filename)) \in ALLOWED_EXTENSIONS

\* ------------------------------------------------------------ the database

\* Column sizes of the models (db.String(n))
UserClerkIdLen == 120

UserEmailLen == 120

RestaurantClerkOrgIdLen == 120

RestaurantNameLen == 100

RestaurantSlugLen == 100

RestaurantPrimaryColorLen == 7

\* Column(default='#D69E2E')
DefaultPrimaryColor == "#D69E2E"

\* class User(db.Model): a row as the handler builds it
User(clerk_id, email, first_name, last_name) ==
    [clerk_id |-> clerk_id, email |-> email,
     first_name |-> first_name, last_name |-> last_name]

\* class Restaurant(db.Model): a new row, the columns the handler does not
\* set taking their defaults
Restaurant(id, clerk_org_id, name, slug) ==
    [id |-> id, clerk_org_id |-> clerk_org_id, name |-> name, slug |-> slug,
     logo_url |-> NoneT, primary_color |-> DefaultPrimaryColor,
     google_link |-> None, tripadvisor_link |-> None]

\* class Server(db.Model)
Server(id, restaurant_id, name) == [id |-> id, restaurant_id |-> restaurant_id, name |-> name]

\* class Dish(db.Model)
Dish(id, name, category, restaurant_id) ==
    [id |-> id, name |-> name, category |-> category, restaurant_id |-> restaurant_id]

\* The tables of one database state
Tables(us, rs, ss, ds) == [users |-> us, restaurants |-> rs, servers |-> ss, dishes |-> ds]

\* The primary keys the database can give a new Restaurant row
FreshIds(rows) == {i \in 1..MaxRowId : \A r \in rows : r.id # i}

\* A value does not fit its VARCHAR column: the statement raises DataError
UserTooLong(u) ==
    \/ u.clerk_id # None /\ Len(u.clerk_id) > UserClerkIdLen
    \/ u.email # None /\ Len(u.email) > UserEmailLen

RestaurantTooLong(r) ==
    \/ r.clerk_org_id # None /\ Len(r.clerk_org_id) > RestaurantClerkOrgIdLen
    \/ r.name # NoneT /\ Len(r.name) > RestaurantNameLen
    \/ r.slug # NoneT /\ Len(r.slug) > RestaurantSlugLen
    \/ r.primary_color # None /\ Len(r.primary_color) > RestaurantPrimaryColorLen

\* nullable=False
UserNotNull(u) == u.clerk_id # None /\ u.email # None

RestaurantNotNull(r) == r.clerk_org_id # None /\ r.name # NoneT /\ r.slug # NoneT

\* unique=True, against the other rows of the table
UserUnique(u, others) ==
    \A o \in others : o.clerk_id # u.clerk_id /\ o.email # u.email

\* A variant of RestaurantUnique without the unique index on slug
RestaurantUniqueButSlug(r, others) ==
    \A o \in others : o.clerk_org_id # r.clerk_org_id /\ o.id # r.id

\* unique=True and the primary key of Restaurant
RestaurantUnique(r, others) ==
    \A o \in others : o.clerk_org_id # r.clerk_org_id /\ o.slug # r.slug /\ o.id # r.id

\* What db.session.commit() raises when the session holds the new or changed
\* row and the table holds `others` besides it
CommitUser(u, others) ==
    IF UserTooLong(u) THEN "DataError"
    ELSE IF ~UserNotNull(u) \/ ~UserUnique(u, others) THEN "IntegrityError"
    ELSE "ok"

CommitRestaurant(r, others) ==
    IF RestaurantTooLong(r) THEN "DataError"
    ELSE IF ~RestaurantNotNull(r) \/ ~RestaurantUnique(r, others) THEN "IntegrityError"
    ELSE "ok"

\* Restaurant.query.filter_by(clerk_org_id=org_id).first(): the set holds the
\* row, or nothing
RestaurantByOrg(rs, org_id) == {r \in rs : r.clerk_org_id = org_id}

\* User.query.filter_by(clerk_id=sub).first()
UserByClerkId(us, clerk_id) == {u \in us : u.clerk_id = clerk_id}

\* A variant of DeleteRestaurant without the cascade to servers and dishes
DeleteRestaurantOnly(T, r) == [T EXCEPT !.restaurants = @ \ {r}]

\* db.session.delete(restaurant) with cascade="all, delete-orphan" on servers
\* and dishes: the rows that refer to the restaurant go with it
DeleteRestaurant(T, r) ==
    [T EXCEPT !.restaurants = @ \ {r},
              !.servers = {s \in @ : s.restaurant_id # r.id},
              !.dishes = {d \in @ : d.restaurant_id # r.id}]

\* ---------------------------------------------------------- clerk_webhook

\* Python truth of an optional text: None and '' are false
Truthy(text) == text # NoneT /\ text # <<>>

TruthyStr(str) == str # None /\ str # ""

\* What a request did: the tables it leaves, the status and the body of the
\* response, the except clause that ran ("none" for none), and for a
\* protected route the claims the decorator set, whether the wrapped function
\* was entered and whether it queried the database
Reply(T, status, body, raised, claims, entered, queried) ==
    [T |-> T, status |-> status, body |-> body, raised |-> raised,
     claims |-> claims, entered |-> entered, queried |-> queried]

\* The members of a JSON body: its kind (jsonify(status=...), or which
\* payload it is) and the settings it carries
StatusBody(kind) ==
    [kind |-> kind, name |-> NoneT, slug |-> NoneT, logoUrl |-> NoneT,
     primaryColor |-> None, googleLink |-> None, tripadvisorLink |-> None]

\* The claims map: claims.get(key) of a key the map lacks is None
Claims(org_id, org_role, sub) == [org_id |-> org_id, org_role |-> org_role, sub |-> sub]

\* {}
EmptyClaims == Claims(None, None, None)

\* A reply of the webhook
Hooked(T, status, kind, raised) == Reply(T, status, StatusBody(kind), raised, EmptyClaims, FALSE, FALSE)

\* data.get("slug") or slugify(data.get("name")); slugify(None) raises
\* AttributeError, which the result reports in `raised`
EventSlug(data) ==
    IF Truthy(data.slug) THEN [raised |-> FALSE, slug |-> data.slug]
    ELSE IF data.name = NoneT THEN [raised |-> TRUE, slug |-> NoneT]
    ELSE [raised |-> FALSE, slug |-> slugify(data.name)]

\* A variant of Rollback in which the first except clause is missing: every
\* exception is answered 500
RollbackAsError(T, outcome) == Hooked(T, 500, "error", "Exception")

\* The end of the try block for a commit that raised `outcome`
Rollback(T, outcome) ==
    IF outcome = "IntegrityError" THEN Hooked(T, 200, "success", "IntegrityError")
    ELSE Hooked(T, 500, "error", "Exception")

\* if event_type == "user.created"
UserCreated(T, data) ==
    IF ~TruthyStr(data.email) THEN Hooked(T, 200, "success", "none")
    ELSE LET new_user == User(data.id, data.email, data.first_name, data.last_name)
             outcome == CommitUser(new_user, T.users)
         IN  IF outcome = "ok"
             THEN Hooked([T EXCEPT !.users = @ \cup {new_user}], 200, "success", "none")
             ELSE Rollback(T, outcome)

\* elif event_type == "organization.created"
OrganizationCreated(T, data, newId) ==
    LET s == EventSlug(data) IN
    IF s.raised THEN Hooked(T, 500, "error", "Exception")
    ELSE LET new_restaurant == Restaurant(newId, data.id, data.name, s.slug)
             outcome == CommitRestaurant(new_restaurant, T.restaurants)
         IN  IF outcome = "ok"
             THEN Hooked([T EXCEPT !.restaurants = @ \cup {new_restaurant}],
                         200, "success", "none")
             ELSE Rollback(T, outcome)

\* elif event_type == "organization.updated"
OrganizationUpdated(T, data) ==
    LET found == RestaurantByOrg(T.restaurants, data.id) IN
    IF found = {} THEN Hooked(T, 200, "success", "none")
    ELSE LET restaurant == CHOOSE r \in found : TRUE
             s == EventSlug(data)
         IN  IF s.raised THEN Hooked(T, 500, "error", "Exception")
             ELSE LET changed == [restaurant EXCEPT !.name = data.name, !.slug = s.slug]
                      outcome == CommitRestaurant(changed, T.restaurants \ {restaurant})
                  IN  IF outcome = "ok"
                      THEN Hooked([T EXCEPT !.restaurants = (@ \ {restaurant}) \cup {changed}],
                                  200, "success", "none")
                      ELSE Rollback(T, outcome)

\* elif event_type == "organization.deleted"
OrganizationDeleted(T, data) ==
    LET found == RestaurantByOrg(T.restaurants, data.id) IN
    IF found = {} THEN Hooked(T, 200, "success", "none")
    ELSE Hooked(DeleteRestaurant(T, CHOOSE r \in found : TRUE), 200, "success", "none")

\* A variant of clerk_webhook that processes the event whatever wh.verify says
clerk_webhook_unverified(T, verified, event, newId) ==
    CASE event.type = "user.created" -> UserCreated(T, event)
      [] event.type = "organization.created" -> OrganizationCreated(T, event, newId)
      [] event.type = "organization.updated" -> OrganizationUpdated(T, event)
      [] event.type = "organization.deleted" -> OrganizationDeleted(T, event)
      [] OTHER -> Hooked(T, 200, "success", "none")

\* clerk_webhook: `verified` is whether wh.verify accepted the payload and
\* headers, `event` what it returned, `newId` the primary key the database
\* gives a Restaurant row the handler inserts
clerk_webhook(T, verified, event, newId) ==
    IF ~verified THEN Hooked(T, 400, "error", "WebhookVerificationError")
    ELSE CASE event.type = "user.created" -> UserCreated(T, event)
           [] event.type = "organization.created" -> OrganizationCreated(T, event, newId)
           [] event.type = "organization.updated" -> OrganizationUpdated(T, event)
           [] event.type = "organization.deleted" -> OrganizationDeleted(T, event)
           [] OTHER -> Hooked(T, 200, "success", "none")

\* ----------------------------------------------------------- requires_auth

\* The answer to httpx.post(introspect_url, ...): the call raised, or returned
\* a status code and (for a JSON body) the "active" and "claims" members
Introspection(kind, status_code, active, hasClaims, claims) ==
    [kind |-> kind, status_code |-> status_code, active |-> active,
     hasClaims |-> hasClaims, claims |-> claims]

\* No call was made
NoIntrospection == Introspection("none", 0, "absent", FALSE, EmptyClaims)

\* `if not auth_header`: the header is missing or empty.  A header is the
\* list auth_header.split(' ')
MissingHeader(header) == header = NoneT \/ header = <<"">>

\* auth_header.split(' ')[1] raises IndexError
NoToken(header) == Len(header) < 2

\* The introspection call is made only with a token in hand
CallMade(header) == ~MissingHeader(header) /\ ~NoToken(header)

\* A variant of requires_auth that does not test "active"
requires_auth_any_answer(header, introspection) ==
    IF MissingHeader(header) THEN [authorized |-> FALSE, claims |-> EmptyClaims]
    ELSE IF NoToken(header) THEN [authorized |-> FALSE, claims |-> EmptyClaims]
    ELSE IF introspection.kind # "response" THEN [authorized |-> FALSE, claims |-> EmptyClaims]
    ELSE IF introspection.status_code = 200
         THEN [authorized |-> TRUE,
               claims |-> IF introspection.hasClaims THEN introspection.claims
                          ELSE EmptyClaims]
         ELSE [authorized |-> FALSE, claims |-> EmptyClaims]

\* The decorator up to `return f(*args, **kwargs)`: whether the wrapped
\* function is called, and request.claims
requires_auth(header, introspection) ==
    IF MissingHeader(header) THEN [authorized |-> FALSE, claims |-> EmptyClaims]
    ELSE IF NoToken(header) THEN [authorized |-> FALSE, claims |-> EmptyClaims]
    ELSE IF introspection.kind # "response" THEN [authorized |-> FALSE, claims |-> EmptyClaims]
    ELSE IF introspection.status_code = 200
         THEN IF introspection.active = "true"
              THEN [authorized |-> TRUE,
                    claims |-> IF introspection.hasClaims THEN introspection.claims
                               ELSE EmptyClaims]
              ELSE [authorized |-> FALSE, claims |-> EmptyClaims]
         ELSE [authorized |-> FALSE, claims |-> EmptyClaims]

\* raise Unauthorized(...)
Unauthorized(T) ==
    Reply(T, 401, StatusBody("unauthorized"), "Unauthorized", EmptyClaims, FALSE, FALSE)

\* ------------------------------------------------------- protected handlers

\* A reply of a wrapped function
Handled(T, status, body, raised, claims, queried) ==
    Reply(T, status, body, raised, claims, TRUE, queried)

\* get_restaurant_from_claims: the row found (as a set), the error status (0
\* for none) and whether the table was queried
get_restaurant_from_claims(T, claims) ==
    IF ~TruthyStr(claims.org_id) THEN [restaurant |-> {}, error |-> 401, queried |-> FALSE]
    ELSE LET found == RestaurantByOrg(T.restaurants, claims.org_id) IN
         IF found = {} THEN [restaurant |-> {}, error |-> 404, queried |-> TRUE]
         ELSE [restaurant |-> found, error |-> 0, queried |-> TRUE]

\* A variant of is_admin that takes any role for an admin's
is_admin_any_role(claims) == claims.org_role # None

is_admin(claims) == claims.org_role \in {"org:admin", "admin"}

\* f"/uploads/{restaurant.logo_url}" if restaurant.logo_url else None
LogoUrlFull(logo_url) ==
    IF Truthy(logo_url) THEN <<"/uploads/">> \o logo_url ELSE NoneT

\* "_".join(filename.split()): whitespace at the ends goes, each run inside
\* becomes one '_'
RECURSIVE JoinRuns(_, _)
JoinRuns(text, inRun) ==
    IF text = <<>> THEN <<>>
    ELSE IF Head(text) # " " THEN <<Head(text)>> \o JoinRuns(Tail(text), FALSE)
         ELSE IF inRun THEN JoinRuns(Tail(text), TRUE)
              ELSE <<"_">> \o JoinRuns(Tail(text), TRUE)

\* The characters werkzeug's secure_filename keeps; an organization id is one
\* element of the text and is made of such characters
IsFilenameChar(c) == IsWordChar(c) \/ c \in {".", "-"} \/ Len(c) > 1

\* werkzeug.utils.secure_filename: path separators become spaces, whitespace
\* is joined by '_', other characters are dropped, '.' and '_' are stripped
\* from the ends
secure_filename(text) ==
    LET spaced == [i \in DOMAIN text |-> IF text[i] = "/" THEN " " ELSE text[i]]
        joined == JoinRuns(Strip(spaced, {" "}), FALSE)
    IN  Strip(SelectSeq(joined, IsFilenameChar), {".", "_"})

\* request.form.get(key, default)
FormGet(value, default) == IF value = NoneT THEN default ELSE value

\* A variant of FormGetStr that forgets the default
FormGetStrNoDefault(value, default) == value

\* request.form.get(key, default) of an opaque value
FormGetStr(value, default) == IF value = None THEN default ELSE value

\* The JSON of the GET branch
SettingsBody(restaurant) ==
    [kind |-> "settings", name |-> restaurant.name, slug |-> restaurant.slug,
     logoUrl |-> LogoUrlFull(restaurant.logo_url),
     primaryColor |-> restaurant.primary_color,
     googleLink |-> restaurant.google_link,
     tripadvisorLink |-> restaurant.tripadvisor_link]

\* The JSON of a successful PUT
UpdatedBody(restaurant) ==
    [StatusBody("updated") EXCEPT !.logoUrl = LogoUrlFull(restaurant.logo_url)]

\* `if 'logo' in request.files` and the test on the file: the upload is kept
LogoAccepted(form) ==
    /\ form.logo # NoneT
    /\ form.logo # <<>>
    /\ allowed_file(form.logo)

\* A variant of AssignSettings that also derives the slug from the new name
AssignSettingsAndSlug(restaurant, form) ==
    [restaurant EXCEPT
        !.name = FormGet(form.name, @),
        !.slug = IF form.name = NoneT THEN @ ELSE slugify(form.name),
        !.primary_color = FormGetStr(form.primaryColor, @),
        !.google_link = FormGetStr(form.googleLink, @),
        !.tripadvisor_link = FormGetStr(form.tripadvisorLink, @)]

\* The assignments of the PUT branch to the row
AssignSettings(restaurant, form) ==
    LET assigned == [restaurant EXCEPT
                        !.name = FormGet(form.name, @),
                        !.primary_color = FormGetStr(form.primaryColor, @),
                        !.google_link = FormGetStr(form.googleLink, @),
                        !.tripadvisor_link = FormGetStr(form.tripadvisorLink, @)]
    IN  IF LogoAccepted(form)
        THEN [assigned EXCEPT
                !.logo_url = secure_filename(<<restaurant.clerk_org_id, "_">> \o form.logo)]
        ELSE assigned

\* The PUT branch of restaurant_settings
PutSettings(T, claims, restaurant, form) ==
    LET changed == AssignSettings(restaurant, form)
        outcome == CommitRestaurant(changed, T.restaurants \ {restaurant})
    IN  IF outcome = "ok"
        THEN Handled([T EXCEPT !.restaurants = (@ \ {restaurant}) \cup {changed}],
                     200, UpdatedBody(changed), "none", claims, TRUE)
        ELSE Handled(T, 500, StatusBody("error"), "Exception", claims, TRUE)

\* restaurant_settings, the function the decorator wraps
restaurant_settings(T, method, claims, form) ==
    LET got == get_restaurant_from_claims(T, claims) IN
    IF got.error # 0 THEN Handled(T, got.error, StatusBody("error"), "none", claims, got.queried)
    ELSE IF ~is_admin(claims) THEN Handled(T, 403, StatusBody("error"), "none", claims, TRUE)
    ELSE LET restaurant == CHOOSE r \in got.restaurant : TRUE IN
         CASE method = "GET" -> Handled(T, 200, SettingsBody(restaurant), "none", claims, TRUE)
           [] method = "PUT" -> PutSettings(T, claims, restaurant, form)
           [] OTHER -> Handled(T, 405, StatusBody("error"), "none", claims, TRUE)

\* A variant of get_dashboard_stats that does not look the user up
get_dashboard_stats_any_user(T, claims) ==
    LET got == get_restaurant_from_claims(T, claims) IN
    IF got.error # 0 THEN Handled(T, got.error, StatusBody("error"), "none", claims, got.queried)
    ELSE IF is_admin(claims) THEN Handled(T, 200, StatusBody("admin_stats"), "none", claims, TRUE)
    ELSE Handled(T, 200, StatusBody("my_stats"), "none", claims, TRUE)

\* get_dashboard_stats, the function the decorator wraps
get_dashboard_stats(T, claims) ==
    LET got == get_restaurant_from_claims(T, claims) IN
    IF got.error # 0 THEN Handled(T, got.error, StatusBody("error"), "none", claims, got.queried)
    ELSE IF is_admin(claims) THEN Handled(T, 200, StatusBody("admin_stats"), "none", claims, TRUE)
    ELSE IF UserByClerkId(T.users, claims.sub) = {}
         THEN Handled(T, 404, StatusBody("error"), "none", claims, TRUE)
         ELSE Handled(T, 200, StatusBody("my_stats"), "none", claims, TRUE)

\* @requires_auth def restaurant_settings(): the route as the client sees it
SettingsRoute(T, method, header, introspection, form) ==
    LET auth == requires_auth(header, introspection) IN
    IF auth.authorized THEN restaurant_settings(T, method, auth.claims, form)
    ELSE Unauthorized(T)

\* @requires_auth def get_dashboard_stats()
StatsRoute(T, header, introspection) ==
    LET auth == requires_auth(header, introspection) IN
    IF auth.authorized THEN get_dashboard_stats(T, auth.claims)
    ELSE Unauthorized(T)

\* ------------------------------------------------------------------ inputs

OrgIds == {"org_a", "org_b"}

UserIds == {"user_1", "user_2"}

Emails == {"ann@x", "bob@x"}

\* An organization name: slugify gives a-b_
Names == {<<"-", "A", " ", "!", "b", "_", "?">>}

Slugs == {<<"x">>}

\* The event wh.verify returns: its type and the members of its data the
\* handler reads (None for a member the data lacks)
Event(type, id, name, slug, email, first_name, last_name) ==
    [type |-> type, id |-> id, name |-> name, slug |-> slug, email |-> email,
     first_name |-> first_name, last_name |-> last_name]

NoEvent == Event("none", None, NoneT, NoneT, None, None, None)

UserEvents ==
    {Event("user.created", id, NoneT, NoneT, email, "Ann", "Lee") :
        id \in UserIds, email \in Emails \cup {None}}

OrganizationEvents ==
    {Event(type, id, name, slug, None, None, None) :
        type \in {"organization.created", "organization.updated"},
        id \in OrgIds, name \in Names \cup {NoneT}, slug \in Slugs \cup {NoneT}}
    \cup {Event("organization.deleted", id, NoneT, NoneT, None, None, None) : id \in OrgIds}

Events ==
    UserEvents \cup OrganizationEvents
    \cup {Event("user.updated", id, NoneT, NoneT, None, None, None) : id \in UserIds}

\* A delivery to the webhook: wh.verify raises, or returns an event
Deliveries ==
    {[verified |-> FALSE, event |-> NoEvent]}
    \cup {[verified |-> TRUE, event |-> e] : e \in Events}

\* Authorization headers, split at the spaces: none, empty, no token, a token
Headers == {NoneT, <<"">>, <<"Bearer">>, <<"Bearer", "tok">>}

Roles == {"org:admin", "admin", "org:member"}

ClaimsMaps ==
    {Claims(org_id, org_role, "user_1") : org_id \in OrgIds \cup {None}, org_role \in Roles}

Introspections ==
    {Introspection("exception", 0, "absent", FALSE, EmptyClaims),
     Introspection("response", 401, "absent", FALSE, EmptyClaims),
     Introspection("response", 200, "false", FALSE, EmptyClaims),
     Introspection("response", 200, "absent", FALSE, EmptyClaims),
     Introspection("response", 200, "true", FALSE, EmptyClaims)}
    \cup {Introspection("response", 200, "true", TRUE, c) : c \in ClaimsMaps}

\* The answers the identity provider can give to a request with this header
Answers(header) == IF CallMade(header) THEN Introspections ELSE {NoIntrospection}

\* request.form and request.files['logo'].filename (None for a key the
\* request lacks)
Form(name, primaryColor, googleLink, tripadvisorLink, logo) ==
    [name |-> name, primaryColor |-> primaryColor, googleLink |-> googleLink,
     tripadvisorLink |-> tripadvisorLink, logo |-> logo]

NoForm == Form(NoneT, None, None, None, NoneT)

FormNames == {<<"Z", "e", "s", "t", "e">>}

FormColors == {"#FFFFFF", "#FFFFFF00"}

GoogleLinks == {"https://g.co/r"}

TripadvisorLinks == {"https://ta.com/r"}

Logos == {<<>>, <<"m", " ", "y", ".", "P", "N", "G">>, <<"l", "o", "g", "o">>,
          <<"a", ".", "p", "n", "g", ".", "E", "X", "E">>}

\* The forms a client may send: any of the fields without a logo, and any
\* logo with every field or none
AllForms ==
    {Form(name, primaryColor, googleLink, tripadvisorLink, NoneT) :
        name \in FormNames \cup {NoneT}, primaryColor \in FormColors \cup {None},
        googleLink \in GoogleLinks \cup {None},
        tripadvisorLink \in TripadvisorLinks \cup {None}}
    \cup {Form(NoneT, None, None, None, logo) : logo \in Logos}
    \cup {Form(name, primaryColor, googleLink, tripadvisorLink, logo) :
            name \in FormNames, primaryColor \in FormColors,
            googleLink \in GoogleLinks, tripadvisorLink \in TripadvisorLinks, logo \in Logos}

\* The forms the clients of the model send: no field and no acceptable logo,
\* or every field and an acceptable logo
Forms ==
    {f \in AllForms :
        \/ f.name = NoneT /\ f.primaryColor = None /\ f.googleLink = None
           /\ f.tripadvisorLink = None /\ ~LogoAccepted(f)
        \/ f.name # NoneT /\ f.primaryColor # None /\ f.googleLink # None
           /\ f.tripadvisorLink # None /\ LogoAccepted(f)}

Methods == {"GET", "PUT", "HEAD"}

\* ----------------------------------------------------------------- actions

\* The last request served: the route, the type of a verified event, the
\* status sent, the except clause that ran, the kind of body sent, and the
\* number of Server and Dish rows the request deleted
Last(op, event_type, reply, T) ==
    [op |-> op, event_type |-> event_type,
     status |-> reply.status, raised |-> reply.raised, kind |-> reply.body.kind,
     cascaded |-> Cardinality(T.servers \ reply.T.servers)
                  + Cardinality(T.dishes \ reply.T.dishes)]

\* No request served yet
NoLast ==
    [op |-> "none", event_type |-> "none", status |-> 0, raised |-> "none",
     kind |-> "none", cascaded |-> 0]

\* with app.app_context(): db.create_all() on an empty database
Init ==
    /\ users = {}
    /\ restaurants = {}
    /\ servers = {}
    /\ dishes = {}
    /\ last = NoLast

\* The request is answered with `reply`
Answer(op, event_type, reply) ==
    /\ users' = reply.T.users
    /\ restaurants' = reply.T.restaurants
    /\ servers' = reply.T.servers
    /\ dishes' = reply.T.dishes
    /\ last' = Last(op, event_type, reply, Tables(users, restaurants, servers, dishes))

\* The primary key of the Restaurant row the event may insert (0 when it
\* inserts none)
NewIds(event, rs) ==
    IF event.type = "organization.created" /\ FreshIds(rs) # {} THEN FreshIds(rs) ELSE {0}

\* POST /api/clerk-webhook
ClerkWebhook ==
    \E d \in Deliveries : \E newId \in NewIds(d.event, restaurants) :
        Answer("clerk_webhook", d.event.type,
               clerk_webhook(Tables(users, restaurants, servers, dishes),
                             d.verified, d.event, newId))

\* The PUT branch is reached and reads request.form and request.files
ReadsForm(T, method, header, introspection) ==
    LET auth == requires_auth(header, introspection) IN
    /\ method = "PUT"
    /\ auth.authorized
    /\ get_restaurant_from_claims(T, auth.claims).error = 0
    /\ is_admin(auth.claims)

\* The forms that tell requests apart: one the handler does not read is any
Sent(T, method, header, introspection) ==
    IF ReadsForm(T, method, header, introspection) THEN Forms ELSE {NoForm}

\* GET, PUT /api/v1/restaurant/settings
RestaurantSettings ==
    \E method \in Methods, header \in Headers :
        \E introspection \in Answers(header) :
        \E form \in Sent(Tables(users, restaurants, servers, dishes), method, header, introspection) :
            Answer("restaurant_settings", "none",
                   SettingsRoute(Tables(users, restaurants, servers, dishes),
                                 method, header, introspection, form))

\* GET /api/v1/dashboard/stats
GetDashboardStats ==
    \E header \in Headers : \E introspection \in Answers(header) :
        Answer("get_dashboard_stats", "none",
               StatsRoute(Tables(users, restaurants, servers, dishes), header, introspection))

Next == ClerkWebhook \/ RestaurantSettings \/ GetDashboardStats

Spec == Init /\ [][Next]_vars

\* A database that already holds two restaurants with their servers and
\* dishes (no handler inserts a Server or Dish row)
InitSeeded ==
    /\ users = {User("user_1", "ann@x", "Ann", "Lee")}
    /\ restaurants = {Restaurant(1, "org_a", CHOOSE n \in Names : TRUE,
                                 slugify(CHOOSE n \in Names : TRUE)),
                      Restaurant(2, "org_b", CHOOSE n \in Names : TRUE,
                                 CHOOSE x \in Slugs : TRUE)}
    /\ servers = {Server(1, 1, "Clara"), Server(2, 2, "Dan")}
    /\ dishes = {Dish(1, "Soup", "starter", 1), Dish(2, "Tart", "dessert", 1)}
    /\ last = NoLast

SpecSeeded == InitSeeded /\ [][Next]_vars

\* ------------------------------------------------------------------ claims

\* The tables of the current state
db == Tables(users, restaurants, servers, dishes)

\* The request passes the gate as the claim C1 words it: it carries a header
\* with a token, the introspection call answered 200 and the answer is active
Authenticated(header, introspection) ==
    /\ header # NoneT
    /\ header # <<"">>
    /\ Len(header) >= 2
    /\ introspection.kind = "response"
    /\ introspection.status_code = 200
    /\ introspection.active = "true"

\* The claims the identity provider returned ({} when the answer has none)
ProviderClaims(introspection) ==
    IF introspection.hasClaims THEN introspection.claims ELSE EmptyClaims

\* What C1 asks of the reply `r` to a request to a protected route
GateHolds(r, header, introspection) ==
    /\ r.entered => Authenticated(header, introspection)
                    /\ r.claims = ProviderClaims(introspection)
    /\ ~Authenticated(header, introspection) =>
          /\ r.status = 401
          /\ r.raised = "Unauthorized"
          /\ ~r.entered
          /\ ~r.queried
          /\ r.T = db
    /\ Authenticated(header, introspection) => r.entered

\* The condition of C1 on the current tables, for every request the clients send
GateHoldsNow ==
    \A header \in Headers : \A introspection \in Answers(header) :
        /\ \A method \in Methods : \A form \in Sent(db, method, header, introspection) :
              GateHolds(SettingsRoute(db, method, header, introspection, form),
                        header, introspection)
        /\ GateHolds(StatsRoute(db, header, introspection), header, introspection)

\* C1: on a route wrapped by requires_auth the handler body runs, with
\* request.claims the provider's claims, only if the request carried an
\* Authorization header with a token and the introspection answered 200 with
\* active true; every other request ends Unauthorized without entering the
\* body and without reading or changing a row.
C1_AuthGate == []GateHoldsNow

\* A protected handler has run for an authenticated request and returned the
\* settings of a restaurant
C1_Witness ==
    /\ last.op = "restaurant_settings"
    /\ last.status = 200
    /\ last.kind = "settings"

\* C2: a webhook request whose signature fails verification is answered 400
\* with status "error" and leaves every table as it was; clerk_webhook
\* changes a row only when wh.verify accepted the request.
C2_UnverifiedWebhook ==
    /\ \A e \in Events \cup {NoEvent} : \A newId \in NewIds(e, restaurants) :
          LET r == clerk_webhook(db, FALSE, e, newId) IN
          r.status = 400 /\ r.body.kind = "error" /\ r.T = db
    /\ \A d \in Deliveries : \A newId \in NewIds(d.event, restaurants) :
          clerk_webhook(db, d.verified, d.event, newId).T # db => d.verified

\* A delivery was refused for its signature while the tables held rows
C2_Witness ==
    /\ last.op = "clerk_webhook"
    /\ last.status = 400
    /\ last.raised = "WebhookVerificationError"
    /\ users # {}
    /\ restaurants # {}

\* The table holds a row for the organization
HasOrg(T, org_id) == \E r \in T.restaurants : r.clerk_org_id = org_id

\* The reply to a verified delivery of `e`
Verified(e, newId) == clerk_webhook(db, TRUE, e, newId)

\* C3: after a verified organization.created or organization.updated event
\* for X with name N a Restaurant row with clerk_org_id X and name N exists,
\* and after a verified user.created event with an email the User row of its
\* clerk id carries the event's email and names, whether or not a row existed
\* before the event.
C3_Upsert ==
    /\ \A e \in OrganizationEvents : \A newId \in NewIds(e, restaurants) :
          e.type \in {"organization.created", "organization.updated"} /\ e.name # NoneT =>
             \E r \in Verified(e, newId).T.restaurants :
                r.clerk_org_id = e.id /\ r.name = e.name
    /\ \A e \in UserEvents :
          e.email # None =>
             \E u \in Verified(e, 0).T.users :
                /\ u.clerk_id = e.id
                /\ u.email = e.email
                /\ u.first_name = e.first_name
                /\ u.last_name = e.last_name

\* The slug the event asks for (the event has a slug or a name)
WantedSlug(e) == IF e.slug # NoneT /\ e.slug # <<>> THEN e.slug ELSE slugify(e.name)

\* C4: no two User rows share a clerk_id or an email and no two Restaurant
\* rows share a clerk_org_id or a slug; an organization.updated event whose
\* slug another restaurant holds, and a user.created event whose email a
\* user with another clerk id holds, leave the tables as they were.
C4_Uniqueness ==
    /\ \A u1, u2 \in users :
          u1 # u2 => u1.clerk_id # u2.clerk_id /\ u1.email # u2.email
    /\ \A r1, r2 \in restaurants :
          r1 # r2 => r1.clerk_org_id # r2.clerk_org_id /\ r1.slug # r2.slug
    /\ \A e \in OrganizationEvents :
          /\ e.type = "organization.updated"
          /\ e.slug # NoneT \/ e.name # NoneT
          /\ \E r \in restaurants : r.clerk_org_id # e.id /\ r.slug = WantedSlug(e)
          => Verified(e, 0).T = db
    /\ \A e \in UserEvents :
          /\ e.email # None
          /\ \E u \in users : u.email = e.email /\ u.clerk_id # e.id
          => Verified(e, 0).T = db

\* An organization.updated event met an integrity error while two
\* restaurants exist
C4_Witness ==
    /\ last.event_type = "organization.updated"
    /\ last.raised = "IntegrityError"
    /\ Cardinality(restaurants) = 2

\* C5: every Server.restaurant_id and Dish.restaurant_id refers to an
\* existing Restaurant row; a verified organization.deleted event for X is
\* answered 200 and leaves no row for X, removes with the row exactly the
\* Server and Dish rows that referred to it, and changes nothing when X has
\* no row.
C5_CascadingDelete ==
    /\ \A s \in servers : \E r \in restaurants : r.id = s.restaurant_id
    /\ \A d \in dishes : \E r \in restaurants : r.id = d.restaurant_id
    /\ \A e \in OrganizationEvents :
          e.type = "organization.deleted" =>
             LET reply == Verified(e, 0)
                 gone == {r \in restaurants : r.clerk_org_id = e.id}
             IN  /\ reply.status = 200
                 /\ ~HasOrg(reply.T, e.id)
                 /\ reply.T.restaurants = restaurants \ gone
                 /\ reply.T.users = users
                 /\ reply.T.servers =
                       {s \in servers : \A r \in gone : s.restaurant_id # r.id}
                 /\ reply.T.dishes =
                       {d \in dishes : \A r \in gone : d.restaurant_id # r.id}
                 /\ gone = {} => reply.T = db

\* An organization.deleted event has removed servers or dishes with the row
C5_Witness ==
    /\ last.event_type = "organization.deleted"
    /\ last.cascaded > 0

\* The two admin roles, as the claims word them
AdminRoles == {"org:admin", "admin"}

\* The tables of `T` but for the Restaurant row of the organization
OtherRows(T, org_id) ==
    [T EXCEPT !.restaurants = {r \in @ : r.clerk_org_id # org_id}]

\* The condition of C6 on the current tables, for every request the clients send
SettingsGateNow ==
    \A c \in ClaimsMaps \cup {EmptyClaims} : \A method \in Methods :
    \A form \in IF method = "PUT" THEN Forms ELSE {NoForm} :
        LET reply == restaurant_settings(db, method, c, form)
            own == {r \in restaurants : r.clerk_org_id = c.org_id}
        IN  /\ c.org_id = None => reply.status = 401 /\ reply.T = db
            /\ c.org_id # None /\ own = {} => reply.status = 404 /\ reply.T = db
            /\ c.org_id # None /\ own # {} /\ c.org_role \notin AdminRoles =>
                  reply.status = 403 /\ reply.T = db
            /\ OtherRows(reply.T, c.org_id) = OtherRows(db, c.org_id)
            /\ reply.body.kind = "settings" =>
                  /\ c.org_role \in AdminRoles
                  /\ \E r \in own :
                        /\ reply.body.name = r.name
                        /\ reply.body.slug = r.slug
                        /\ reply.body.primaryColor = r.primary_color
                        /\ reply.body.googleLink = r.google_link
                        /\ reply.body.tripadvisorLink = r.tripadvisor_link
                        /\ reply.body.logoUrl =
                              IF r.logo_url = NoneT THEN NoneT
                              ELSE <<"/uploads/">> \o r.logo_url
            /\ reply.body.kind \notin {"settings", "updated"} => reply.body = StatusBody("error")
            /\ reply.status \in {401, 403, 404} => reply.T = db

\* C6: restaurant_settings answers 401 without an org_id claim, else 404
\* without a Restaurant row for the org_id, else 403 without an admin role,
\* each leaving every row unchanged; otherwise it reads or modifies only the
\* row whose clerk_org_id is the org_id claim: every other row stays as it
\* is, and the settings it returns are those of that row.
C6_SettingsGate == []SettingsGateNow

\* A request to restaurant_settings was refused for its role
C6_Witness ==
    /\ last.op = "restaurant_settings"
    /\ last.status = 403

\* What C7 asks of a step
C7_Step ==
    /\ \/ {u.clerk_id : u \in users'} # {u.clerk_id : u \in users}
       \/ {r.clerk_org_id : r \in restaurants'} # {r.clerk_org_id : r \in restaurants}
       => /\ last'.op = "clerk_webhook"
          /\ last'.raised # "WebhookVerificationError"
          /\ last'.status # 400
    /\ last'.op \in {"restaurant_settings", "get_dashboard_stats"} =>
          /\ users' = users
          /\ servers' = servers
          /\ dishes' = dishes
          /\ Cardinality(restaurants') = Cardinality(restaurants)
          /\ \A r \in restaurants : \E n \in restaurants' :
                n.id = r.id /\ n.clerk_org_id = r.clerk_org_id /\ n.slug = r.slug
    /\ last'.op = "get_dashboard_stats" => restaurants' = restaurants

\* C7: the sets of User rows and of Restaurant rows, by clerk_id and
\* clerk_org_id, change only in a clerk_webhook step whose signature was
\* verified; restaurant_settings and get_dashboard_stats add and remove no
\* row, and restaurant_settings changes no row's clerk_org_id or slug.
C7_RowsOnlyByWebhook == [][C7_Step]_vars

\* restaurant_settings has updated one of two restaurants
C7_Witness ==
    /\ last.op = "restaurant_settings"
    /\ last.kind = "updated"
    /\ Cardinality(restaurants) = 2

\* The event is a creation whose key a row already holds
KeyHeld(e) ==
    IF e.type = "user.created"
    THEN \E u \in users : u.clerk_id = e.id \/ u.email = e.email
    ELSE \E r \in restaurants : r.clerk_org_id = e.id \/ r.slug = WantedSlug(e)

\* The event has neither a slug nor a name to make one from
NoSlugNoName(e) == (e.slug = NoneT \/ e.slug = <<>>) /\ e.name = NoneT

\* The condition of C8 on the current tables, for every request the clients send
RedeliveryNow ==
    /\ \A e \in UserEvents : e.email # None =>
          LET reply == Verified(e, 0) IN
          /\ KeyHeld(e) =>
                /\ reply.status = 200
                /\ reply.body.kind = "success"
                /\ reply.raised = "IntegrityError"
                /\ reply.T = db
          /\ clerk_webhook(reply.T, TRUE, e, 0).T = reply.T
    /\ \A e \in OrganizationEvents : \A newId \in NewIds(e, restaurants) :
          LET reply == Verified(e, newId) IN
          /\ e.type = "organization.created" /\ NoSlugNoName(e) =>
                reply.status = 500 /\ reply.T = db
          /\ e.type = "organization.updated" /\ NoSlugNoName(e) /\ HasOrg(db, e.id) =>
                reply.status = 500 /\ reply.T = db
          /\ e.type = "organization.created" /\ ~NoSlugNoName(e) /\ KeyHeld(e) =>
                /\ reply.status = 200
                /\ reply.body.kind = "success"
                /\ reply.raised = "IntegrityError"
                /\ reply.T = db
          /\ e.type = "organization.created" =>
                \A again \in NewIds(e, reply.T.restaurants) :
                    clerk_webhook(reply.T, TRUE, e, again).T = reply.T
          /\ reply.status = 500 => reply.T = db
          /\ reply.status \in {200, 500}

\* C8: a verified user.created or organization.created event whose clerk id,
\* email or slug a row already holds is answered 200 "success" after the
\* integrity error is rolled back and leaves the tables as they were, so
\* processing an event a second time changes nothing more; an event that
\* raises another exception (organization.created or, for an existing row,
\* organization.updated with neither slug nor name) is answered 500 and
\* leaves the tables as they were.
C8_Redelivery == []RedeliveryNow

\* An organization.created event met an integrity error and was answered 200
C8_Witness ==
    /\ last.event_type = "organization.created"
    /\ last.raised = "IntegrityError"
    /\ last.status = 200
    /\ restaurants # {}

\* The upload is one the claim C9 lets replace the logo: a 'logo' file with a
\* non-empty filename and an extension in {png, jpg, jpeg, gif}, in any case
LogoReplaces(form) ==
    /\ form.logo # NoneT
    /\ form.logo # <<>>
    /\ \E i \in DOMAIN form.logo :
          /\ form.logo[i] = "."
          /\ \A j \in (i + 1)..Len(form.logo) : form.logo[j] # "."
          /\ Lower(SubSeq(form.logo, i + 1, Len(form.logo)))
                \in {<<"p","n","g">>, <<"j","p","g">>, <<"j","p","e","g">>, <<"g","i","f">>}

\* The row a successful PUT of the form leaves in place of `r`
Updated(r, form) ==
    [id |-> r.id, clerk_org_id |-> r.clerk_org_id, slug |-> r.slug,
     name |-> IF form.name # NoneT THEN form.name ELSE r.name,
     primary_color |-> IF form.primaryColor # None THEN form.primaryColor
                       ELSE r.primary_color,
     google_link |-> IF form.googleLink # None THEN form.googleLink ELSE r.google_link,
     tripadvisor_link |-> IF form.tripadvisorLink # None THEN form.tripadvisorLink
                          ELSE r.tripadvisor_link,
     logo_url |-> IF LogoReplaces(form)
                  THEN secure_filename(<<r.clerk_org_id, "_">> \o form.logo)
                  ELSE r.logo_url]

\* The condition of C9 on the current tables, for every request the clients send
SettingsUpdateNow ==
    \A r \in restaurants : \A form \in AllForms :
        LET reply == restaurant_settings(db, "PUT", Claims(r.clerk_org_id, "org:admin", None),
                                         form)
        IN  /\ reply.status \in {200, 500}
            /\ reply.status = 200 =>
                  reply.T = [db EXCEPT !.restaurants = (@ \ {r}) \cup {Updated(r, form)}]
            /\ reply.status = 500 => reply.T = db
            /\ form.primaryColor # None /\ Len(form.primaryColor) > 7 => reply.status = 500
            /\ form.primaryColor = None \/ Len(form.primaryColor) <= 7 => reply.status = 200

\* C9: a PUT on restaurant_settings by an admin of the restaurant is answered
\* 200 or 500; answered 200 it replaces the row by one that differs only in
\* name, primary_color, google_link and tripadvisor_link, each the form's
\* value when the form carries it, and in logo_url when an allowed logo file
\* is uploaded; answered 500, as it is when a value does not fit its column,
\* it leaves the row as it was.
C9_SettingsUpdate == []SettingsUpdateNow

\* A PUT was answered 500 after its commit failed
C9_Witness ==
    /\ last.op = "restaurant_settings"
    /\ last.status = 500
    /\ last.raised = "Exception"

\* The condition of C10 on the current tables, for every request the clients send
LifecycleNow ==
    /\ last.op = "none" => restaurants = {}
    /\ \A d \in Deliveries : \A newId \in NewIds(d.event, restaurants) : \A org \in OrgIds :
          LET reply == clerk_webhook(db, d.verified, d.event, newId) IN
          /\ HasOrg(reply.T, org) /\ ~HasOrg(db, org) =>
                d.verified /\ d.event.type = "organization.created" /\ d.event.id = org
          /\ ~HasOrg(reply.T, org) /\ HasOrg(db, org) =>
                d.verified /\ d.event.type = "organization.deleted" /\ d.event.id = org
          /\ d.verified /\ d.event.type = "organization.deleted" /\ d.event.id = org =>
                ~HasOrg(reply.T, org)
          /\ d.verified /\ d.event.type = "organization.created" /\ d.event.id = org
             /\ reply.raised = "none" => HasOrg(reply.T, org)
    /\ \A c \in ClaimsMaps : c.org_id # None =>
          LET settings == restaurant_settings(db, "GET", c, NoForm)
              stats == get_dashboard_stats(db, c)
              got == get_restaurant_from_claims(db, c)
          IN  IF ~HasOrg(db, c.org_id)
              THEN settings.status = 404 /\ stats.status = 404
              ELSE /\ got.error = 0
                   /\ got.restaurant = {r \in restaurants : r.clerk_org_id = c.org_id}
                   /\ settings.status # 404
                   /\ c.org_role \in AdminRoles =>
                         stats.status = 200 /\ stats.body.kind = "admin_stats"
                   /\ c.org_role \notin AdminRoles =>
                         IF \E u \in users : u.clerk_id = c.sub
                         THEN stats.status = 200 /\ stats.body.kind = "my_stats"
                         ELSE stats.status = 404

\* C10: before any request no Restaurant row exists; a row for X appears only
\* with a committed verified organization.created event for X and goes only
\* with a verified organization.deleted event for X, which always removes
\* it; for claims with org_id X both protected handlers answer 404 while no
\* row for X exists and resolve the row while it does; then
\* get_dashboard_stats gives an admin the admin stats, and a non-admin the
\* personal stats when a User row has the clerk_id of the sub claim and 404
\* otherwise.
C10_Lifecycle == []LifecycleNow

\* get_dashboard_stats has given a non-admin the personal stats
C10_Witness ==
    /\ last.op = "get_dashboard_stats"
    /\ last.kind = "my_stats"

====
